---- MODULE Spec2Model ----
(***************************************************************************)
(* A model of tg-autorepost (src/main.py): the repost pipeline that        *)
(* mirrors a source channel into a target channel.                         *)
(*                                                                         *)
(* The program is one asyncio event loop.  initial_catchup runs inside     *)
(* main(); every NewMessage update is dispatched by the client to          *)
(* on_new_post in a task of its own (the client is built at line 82 with   *)
(* its defaults, so updates are not handled sequentially), and the update  *)
(* loop runs from the moment `with client:` connects, catch-up included.   *)
(* A task runs alone from one `await` to the next; an action of this model *)
(* is the code a task executes between two suspension points, with the     *)
(* awaited result as its input.  A sleep that follows a reply and touches  *)
(* no shared state is folded into the action of that reply.                *)
(***************************************************************************)
EXTENDS Integers, Sequences, FiniteSets, TLC

\* ------------------------------------------------------------------ bounds
MaxId == 3            \* items the source channel ever holds
MaxRetry == 2         \* RETRY_COUNT is drawn from 1..MaxRetry
MaxDeletes == 1       \* items the source channel deletes
MaxActive == 2        \* Posts being handled at the same time
MaxOne == 1           \* items of the channel in the runs over every configuration
MaxFair == 2          \* items of the channel in the runs with fairness
CATCH_UP == 2         \* the configured catch-up count (line 34)

\* ------------------------------------------------------- program constants
RETRY_DELAY_SEC == 2      \* line 41, the default
FLOOD_BUFFER == 2         \* lines 154 and 169: seconds + 2
GROUP_SCAN_LIMIT == 40    \* lines 228 and 258

VARIABLES
    history,    \* the source channel: history[i] is the item with id i
    deleted,    \* ids the source channel has deleted
    budget,     \* items the source channel may still publish
    cfg,        \* the environment: SIGNATURE, KEEP_HASHTAGS, RETRY_COUNT,
                \* whether OPENAI_API_KEY is set, whether the disk may fail
    last_id,    \* state["last_id"], the dedup watermark
    file,       \* the content of state.json
    sent,       \* the target channel: the ids of the Posts delivered, in order
    tasks,      \* tasks[0]: initial_catchup; tasks[i]: on_new_post of item i
    msgs,       \* initial_catchup's batch (ids)
    idx,        \* initial_catchup's position in msgs
    committed,  \* history variable: the ids committed so far
    passed,     \* history variable: the effective ids that passed the Filter,
                \* and whether they passed it in non-decreasing order
    last,       \* history variable: the Post the last step ended, if it ended one
    call        \* a function of the program applied on its own: its name,
                \* its arguments and what it returned

vars == <<history, deleted, budget, cfg, last_id, file, sent, tasks, msgs, idx,
          committed, passed, last, call>>

\* ------------------------------------------------------------------- text
NL == "\n"
IsSpace(c) == c \in {" ", "\t", NL}

RECURSIVE lstrip(_)
lstrip(s) == IF s # <<>> /\ IsSpace(Head(s)) THEN lstrip(Tail(s)) ELSE s

RECURSIVE rstrip(_)
rstrip(s) ==
    IF s # <<>> /\ IsSpace(s[Len(s)]) THEN rstrip(SubSeq(s, 1, Len(s) - 1)) ELSE s

\* str.strip()
strip(s) == rstrip(lstrip(s))

\* re.sub(r"[ \t]+", " ", text)
RECURSIVE collapse(_)
collapse(s) ==
    IF s = <<>> THEN <<>>
    ELSE IF Head(s) \in {" ", "\t"}
         THEN IF Len(s) > 1 /\ s[2] \in {" ", "\t"}
              THEN collapse(Tail(s))
              ELSE <<" ">> \o collapse(Tail(s))
         ELSE <<Head(s)>> \o collapse(Tail(s))

_normalize(text) == IF text = <<>> THEN <<>> ELSE strip(collapse(text))

\* The texts of source items, the backend's answers, the signatures.
ItemTexts == {<<>>, <<"a">>}
\* The backend's answer; ok = FALSE: no backend configured (line 137), or the
\* call raised (line 134).
NoReply == [ok |-> FALSE, text |-> <<>>]
Replies(openai) ==
    IF openai THEN {NoReply, [ok |-> TRUE, text |-> <<"b">>],
                    [ok |-> TRUE, text |-> <<>>]}
    ELSE {NoReply}
Signatures == {<<>>, <<"s">>}

\* _preserve_hashtags raises on every non-empty text: "\p" is a bad escape
\* for re (re.error at re.findall, line 89); the empty text returns early.
_preserve_hashtags_raises(text) == text # <<>>

\* translate_text raises iff it reaches _preserve_hashtags with a non-empty
\* base; the call at line 118 is outside the try of lines 121-136.
translate_raises(text, keep) ==
    text # <<>> /\ keep /\ _preserve_hashtags_raises(strip(text))

\* _preserve_hashtags: ("", []) for the empty text (lines 86-87); for any
\* other text re.findall raises before a tag is recorded.
_preserve_hashtags(text) ==
    [raised |-> _preserve_hashtags_raises(text), t |-> <<>>, placeholders |-> <<>>]

\* f"__HTAG_{i}__", as one token of a text
Placeholder(i) == <<"__HTAG_0__", "__HTAG_1__", "__HTAG_2__">>[i + 1]

\* str.replace(old, new), old being one token
RECURSIVE replace(_, _, _)
replace(t, old, new) ==
    IF t = <<>> THEN <<>>
    ELSE (IF Head(t) = old THEN new ELSE <<Head(t)>>) \o replace(Tail(t), old, new)

\* _restore_hashtags, lines 98-102: placeholder i-1 becomes tag i, in turn
RECURSIVE restore_from(_, _, _)
restore_from(t, placeholders, i) ==
    IF i > Len(placeholders) THEN t
    ELSE restore_from(replace(t, Placeholder(i - 1), placeholders[i]),
                      placeholders, i + 1)

_restore_hashtags(text, placeholders) == restore_from(text, placeholders, 1)

\* A translate_text that puts the signature on the next line, with no
\* blank line between.
translate_text_one_newline(text, reply, sig) ==
    IF text = <<>> THEN text
    ELSE LET base == strip(text)
             out == IF reply.ok THEN strip(reply.text) ELSE base
         IN  IF sig # <<>>
             THEN IF out # <<>> THEN out \o <<NL>> \o sig ELSE sig
             ELSE out

\* A translate_text without the early return of lines 112-113.
translate_text_signs_empty(text, reply, sig) ==
    LET base == strip(text)
        out == IF text # <<>> /\ reply.ok THEN strip(reply.text) ELSE base
    IN  IF sig # <<>>
        THEN IF out # <<>> THEN out \o <<NL, NL>> \o sig ELSE sig
        ELSE out

\* translate_text when it does not raise.  reply is the backend's answer.
\* With no placeholders recorded, _restore_hashtags is the identity.
translate_text(text, reply, sig) ==
    IF text = <<>> THEN text
    ELSE LET base == strip(text)
             out == IF reply.ok THEN strip(reply.text) ELSE base
         IN  IF sig # <<>>
             THEN IF out # <<>> THEN out \o <<NL, NL>> \o sig ELSE sig
             ELSE out

\* ------------------------------------------------------------ the channel
\* An item: media or none, a text, a grouped_id (0: none).  The items of an
\* album are media messages.
ItemKinds ==
    {k \in [media : BOOLEAN, text : ItemTexts, gid : {0, 1}] :
        k.gid # 0 => k.media}

Min(a, b) == IF a <= b THEN a ELSE b

RECURSIVE Ascending(_)
\* the ids of a set, ascending
Ascending(S) ==
    IF S = {} THEN <<>>
    ELSE LET m == CHOOSE x \in S : \A y \in S : x <= y
         IN  <<m>> \o Ascending(S \ {m})

Visible == Ascending({i \in 1..Len(history) : i \notin deleted})

\* client.iter_messages(SOURCE, reverse=True, limit=n): oldest first
iter_messages(limit) == SubSeq(Visible, 1, Min(limit, Len(Visible)))

\* the items of a scan that carry grouped_id gid (lines 228-230, 258-260)
group_of(gid, limit) ==
    SelectSeq(iter_messages(limit), LAMBDA i : history[i].gid = gid)

RECURSIVE insert(_, _)
insert(x, s) ==
    IF s = <<>> THEN <<x>>
    ELSE IF x <= Head(s) THEN <<x>> \o s ELSE <<Head(s)>> \o insert(x, Tail(s))

RECURSIVE sorted(_)
\* sorted(messages, key=lambda m: m.id)
sorted(s) == IF s = <<>> THEN <<>> ELSE insert(Head(s), sorted(Tail(s)))


\* ---------------------------------------------------------------- tasks
Procs == 0..MaxId
Live == 1..MaxId

\* The locals of a task: the triggering item, the Post's items (sorted), the
\* watermark its Filter read, the media fetched so far, the caption, and the
\* Send Executor's finished
\* attempts: for each the reply, the seconds of a FloodWaitError and the
\* sleep made after it (0: none).
NoTask == [pc |-> "idle", msg |-> 0, grp |-> <<>>, seen |-> 0, files |-> <<>>,
           caption |-> <<>>, log |-> <<>>]

\* What the last step ended, if it ended a Post: task t, triggered by item
\* msg, handled the Post with effective id `id` (0: none was formed) with
\* outcome res (and the cause err of a failure); the Send Executor's
\* attempts; whether a delivery was acknowledged; whether the Post had
\* neither a caption nor media.
NoLast == [t |-> 0, msg |-> 0, id |-> 0, res |-> "none", err |-> "none",
           log |-> <<>>, delivered |-> FALSE, empty |-> FALSE]

\* The tasks that are handling a Post (initial_catchup: its whole loop).
Active ==
    {t \in Procs : tasks[t].pc \in {"scan", "download", "send"}}
        \cup {t \in {0} : tasks[0].pc = "loop"}

\* A Post is between its Filter and its Commit.
InFlight(t) == tasks[t].pc \in {"download", "send"}

\* No task is inside a synchronous section: initial_catchup is not between
\* two iterations of its loop (lines 253-266 run on without an await).
Quiet == tasks[0].pc # "loop"

\* state.json: absent, holding {"last_id": n}, or cut short by a failed write
NoFile == [st |-> "absent", last_id |-> 0]

\* No function has been applied on its own.
NoCall == [fn |-> "none"]

TypeOK ==
    /\ Len(history) <= MaxId
    /\ deleted \subseteq 1..Len(history)
    /\ last_id \in 0..MaxId
    /\ file \in [st : {"absent", "partial", "valid"}, last_id : 0..MaxId]

\* ---------------------------------------------------------------- Init
Configs == [SIGNATURE : Signatures, KEEP_HASHTAGS : BOOLEAN,
            RETRY_COUNT : 1..MaxRetry, OPENAI : BOOLEAN, DISK_FAULTS : BOOLEAN]

\* The configurations of the runs with several items: one delivery attempt,
\* no signature, no translation backend, a disk that works.
PlainConfigs ==
    {c \in Configs : /\ c.RETRY_COUNT = 1
                     /\ c.SIGNATURE = <<>>
                     /\ ~c.OPENAI
                     /\ ~c.DISK_FAULTS}

\* A first start: there is no state file, so load_state returns
\* {"last_id": 0} (line 64).  The channel holds n <= N items and publishes
\* N - n more.
InitWith(C, N) ==
    /\ \E n \in 0..N : history \in [1..n -> ItemKinds] /\ budget = N - n
    /\ deleted = {}
    /\ cfg \in C
    /\ last_id = 0
    /\ file = NoFile
    /\ sent = <<>>
    /\ tasks = [t \in Procs |-> IF t = 0 THEN [NoTask EXCEPT !.pc = "start"]
                                ELSE NoTask]
    /\ msgs = <<>>
    /\ idx = 0
    /\ committed = {}
    /\ passed = [ids |-> {}, in_order |-> TRUE]
    /\ last = NoLast
    /\ call = NoCall

\* Several items, the plain configurations.
Init == InitWith(PlainConfigs, MaxId)

\* Every configuration, MaxOne items.
InitAll == InitWith(Configs, MaxOne)

\* --------------------------------------------------------- the state file
\* What state.json may hold when the program starts: nothing, text that is
\* not JSON (an empty or cut file included), JSON that is not an object, an
\* object without "last_id", an object whose "last_id" is a string, null or
\* a fraction, or {"last_id": n}.
FileContents ==
    [st : {"absent", "partial", "not_object", "no_last_id", "last_id_str",
           "last_id_null", "last_id_float"}, last_id : {0}]
        \cup [st : {"valid"}, last_id : 0..MaxId]

\* load_state, lines 55-64: state["last_id"] after loading.  Any dict with
\* the key "last_id" is returned as it is (lines 60-61).
load_state(f) ==
    CASE f.st = "valid" -> [type |-> "int", n |-> f.last_id]
      [] f.st = "last_id_str" -> [type |-> "str", n |-> 0]
      [] f.st = "last_id_null" -> [type |-> "null", n |-> 0]
      [] f.st = "last_id_float" -> [type |-> "float", n |-> 0]
      [] OTHER -> [type |-> "int", n |-> 0]

\* `msg.id <= state.get("last_id", 0)` (lines 181, 201) raises TypeError
\* when the watermark is a string or None.
filter_raises(watermark) == watermark.type \in {"str", "null"}

\* Where the process may die inside save_state: before open(), after
\* open("w") has truncated the file, while json.dump writes, after close().
CrashPoints == {"before_open", "after_open", "in_dump", "after_close"}

\* state.json after the process died at point `point` of save_state, which
\* was writing {"last_id": id} over the file f (lines 68-69).
crashed_save(f, id, point) ==
    CASE point = "before_open" -> f
      [] point = "after_open" -> [st |-> "partial", last_id |-> 0]
      [] point = "in_dump" -> [st |-> "partial", last_id |-> 0]
      [] point = "after_close" -> [st |-> "valid", last_id |-> id]

\* ------------------------------------------------------------ the ledger
\* A Filter that lets the Post at the watermark through.
is_old_strict(id, watermark) == id < watermark

\* repost_single_message line 181, repost_media_group line 201
is_old(id, watermark) == id <= watermark

\* save_state: the file after json.dump of {"last_id": id}.  open() may fail
\* (the file is left as it was) and the write may fail after open() has
\* truncated the file; both are logged and swallowed (lines 70-71).
IoResults(faults) ==
    IF faults THEN {"ok", "open_failed", "write_failed"} ELSE {"ok"}

save_state(id, io) ==
    CASE io = "ok" -> [st |-> "valid", last_id |-> id]
      [] io = "open_failed" -> file
      [] io = "write_failed" -> [st |-> "partial", last_id |-> 0]

\* ------------------------------------------------------ the Send Executor
FloodWaits == {1, 2}      \* FloodWaitError.seconds

\* line 154 / 169: wait = seconds + 2
flood_wait(seconds) == seconds + FLOOD_BUFFER

\* `for attempt in range(1, RETRY_COUNT + 1)`: is there a next iteration?
has_next_attempt(attempt) == attempt < cfg.RETRY_COUNT

\* An executor that goes on after the error of its last attempt.
retry_after_last(attempt) == attempt <= cfg.RETRY_COUNT

\* line 159 / 174: `if attempt < RETRY_COUNT` (sleep and go on) `else: raise`
retry_after_error(attempt) == attempt < cfg.RETRY_COUNT

\* -------------------------------------------------------- task plumbing
\* An effective id taken from the first item of the group.
Eff_first(r) == IF r.grp = <<>> THEN 0 ELSE r.grp[1]

\* The task's effective id: the id of the last item of its sorted group.
Eff(r) == IF r.grp = <<>> THEN 0 ELSE r.grp[Len(r.grp)]

MediaOf(grp) == SelectSeq(grp, LAMBDA i : history[i].media)

\* The task goes to its next suspension point.
Goto(t, r) ==
    /\ tasks' = [tasks EXCEPT ![t] = r]
    /\ idx' = idx
    /\ last' = NoLast

\* A catch-up that gives up its batch at the first Post that fails.
Ended_aborts(t, r, res, err, delivered) ==
    /\ tasks' = [tasks EXCEPT ![t] =
                   [NoTask EXCEPT !.pc = IF t # 0 THEN "end"
                                         ELSE IF res = "failed" THEN "live"
                                         ELSE "loop"]]
    /\ idx' = IF t = 0 THEN idx + 1 ELSE idx
    /\ last' = [t |-> t, msg |-> r.msg, id |-> Eff(r), res |-> res,
                err |-> err, log |-> r.log, delivered |-> delivered,
                empty |-> r.grp # <<>> /\ r.caption = <<>> /\ MediaOf(r.grp) = <<>>]

\* The Post of task t ends with outcome res.  on_new_post returns (a raised
\* failure is absorbed at lines 241-242); initial_catchup goes to the next
\* message of its batch (a raised failure is absorbed at lines 265-266).
Ended(t, r, res, err, delivered) ==
    /\ tasks' = [tasks EXCEPT ![t] =
                   [NoTask EXCEPT !.pc = IF t = 0 THEN "loop" ELSE "end"]]
    /\ idx' = IF t = 0 THEN idx + 1 ELSE idx
    /\ last' = [t |-> t, msg |-> r.msg, id |-> Eff(r), res |-> res,
                err |-> err, log |-> r.log, delivered |-> delivered,
                empty |-> r.grp # <<>> /\ r.caption = <<>> /\ MediaOf(r.grp) = <<>>]

\* Commit, lines 194-195 and 218-219.
Commit(t, r, id, delivered) ==
    /\ last_id' = id
    /\ \E io \in IoResults(cfg.DISK_FAULTS) : file' = save_state(id, io)
    /\ committed' = committed \cup {id}
    /\ Ended(t, r, "committed", "none", delivered)

\* From the Filter to the first suspension point, for the items grp0.
Repost(t, m, grp0) ==
    LET grp == sorted(grp0)
        eff == grp[Len(grp)]
        r0 == [NoTask EXCEPT !.msg = m, !.grp = grp, !.seen = last_id]
        caption_src == history[eff].text
    IN  IF is_old(eff, last_id)
        THEN /\ Ended(t, r0, "skipped", "none", FALSE)
             /\ UNCHANGED <<last_id, file, sent, committed, passed>>
        ELSE /\ passed' = [ids |-> passed.ids \cup {eff},
                         in_order |-> passed.in_order
                                        /\ \A p \in passed.ids : p <= eff]
             /\ IF translate_raises(caption_src, cfg.KEEP_HASHTAGS)
                THEN /\ Ended(t, r0, "failed", "translate", FALSE)
                     /\ UNCHANGED <<last_id, file, sent, committed>>
                ELSE \E reply \in Replies(cfg.OPENAI) :
                       LET caption_tr == _normalize(
                               translate_text(caption_src, reply, cfg.SIGNATURE))
                           r1 == [r0 EXCEPT !.caption = caption_tr]
                       IN  IF MediaOf(grp) # <<>>
                           THEN /\ Goto(t, [r1 EXCEPT !.pc = "download"])
                                /\ UNCHANGED <<last_id, file, sent, committed>>
                           ELSE IF caption_tr # <<>>
                           THEN /\ Goto(t, [r1 EXCEPT !.pc = "send"])
                                /\ UNCHANGED <<last_id, file, sent, committed>>
                           ELSE /\ Commit(t, r1, eff, FALSE)
                                /\ UNCHANGED sent

repost_single_message(t, m) == Repost(t, m, <<m>>)

repost_media_group(t, m, messages) == Repost(t, m, messages)

\* The limit of the group scan: line 228 (live), line 258 (catch-up).
scan_limit(t) == IF t = 0 THEN CATCH_UP + GROUP_SCAN_LIMIT ELSE GROUP_SCAN_LIMIT

\* A handler that commits the notified id when the scan finds nothing.
scanned_commits_empty(t, m, grp) ==
    IF grp = <<>>
    THEN /\ Commit(t, tasks[t], m, FALSE)
         /\ UNCHANGED <<sent, passed>>
    ELSE repost_media_group(t, m, grp)

\* `if grp: await repost_media_group(grp)`, lines 231-232 and 261-262.
scanned(t, m, grp) ==
    IF grp = <<>>
    THEN /\ Ended(t, tasks[t], "noop", "none", FALSE)
         /\ UNCHANGED <<last_id, file, sent, committed, passed>>
    ELSE repost_media_group(t, m, grp)

\* ---------------------------------------------------------- the channel
\* The source channel publishes an item; the client is handed the update.
Post ==
    /\ Quiet
    /\ budget > 0
    /\ budget' = budget - 1
    /\ \E k \in ItemKinds :
         /\ history' = Append(history, k)
         /\ tasks' = [tasks EXCEPT ![Len(history) + 1] =
                        [NoTask EXCEPT !.pc = "notified", !.msg = Len(history) + 1]]
    /\ last' = NoLast
    /\ UNCHANGED <<deleted, cfg, last_id, file, sent, msgs, idx, committed,
                   passed>>
    /\ UNCHANGED call

\* The source channel deletes an item.
Delete ==
    /\ Quiet
    /\ Cardinality(deleted) < MaxDeletes
    /\ \E i \in 1..Len(history) :
         /\ i \notin deleted
         /\ deleted' = deleted \cup {i}
    /\ last' = NoLast
    /\ UNCHANGED <<history, budget, cfg, last_id, file, sent, tasks, msgs, idx,
                   committed, passed>>
    /\ UNCHANGED call

\* ------------------------------------------------------ live notifications
\* on_new_post / handle_new_message up to the first suspension point.  The
\* client starts the handlers in the order of the updates.
HandlerStart(t) ==
    /\ Quiet
    /\ t \in Live
    /\ tasks[t].pc = "notified"
    /\ \A u \in Live : u < t => tasks[u].pc # "notified"
    /\ Cardinality(Active) < MaxActive
    /\ IF history[t].gid # 0
       THEN /\ Goto(t, [tasks[t] EXCEPT !.pc = "scan"])
            /\ UNCHANGED <<last_id, file, sent, committed, passed>>
       ELSE repost_single_message(t, t)
    /\ UNCHANGED <<history, deleted, budget, cfg, msgs>>
    /\ UNCHANGED call

\* The reply to the group scan arrives (lines 228-232 and 258-262).
Scan(t) ==
    /\ Quiet
    /\ tasks[t].pc = "scan"
    /\ LET m == tasks[t].msg
           grp == group_of(history[m].gid, scan_limit(t))
       IN  \/ /\ Ended(t, tasks[t], "failed", "scan", FALSE)
              /\ UNCHANGED <<last_id, file, sent, committed, passed>>
           \/ scanned(t, m, grp)
    /\ UNCHANGED <<history, deleted, budget, cfg, msgs>>
    /\ UNCHANGED call

\* client.download_media returns, or raises (lines 188 and 210).
Download(t) ==
    /\ Quiet
    /\ tasks[t].pc = "download"
    /\ LET r == tasks[t]
           media == MediaOf(r.grp)
           files == Append(r.files, media[Len(r.files) + 1])
       IN  \/ Ended(t, r, "failed", "download", FALSE)
           \/ IF Len(files) < Len(media)
              THEN Goto(t, [r EXCEPT !.files = files])
              ELSE Goto(t, [r EXCEPT !.files = files, !.pc = "send"])
    /\ UNCHANGED <<history, deleted, budget, cfg, last_id, file, sent, msgs,
                   committed, passed>>
    /\ UNCHANGED call

\* client.send_file / client.send_message returns or raises, inside
\* safe_send_file / safe_send_message (lines 149-177).  The attempt that is
\* awaited is number Len(log) + 1.
Send(t) ==
    /\ Quiet
    /\ tasks[t].pc = "send"
    /\ LET r == tasks[t]
           attempt == Len(r.log) + 1
       IN  \/ \* delivered: return, then Commit
              /\ sent' = Append(sent, Eff(r))
              /\ Commit(t, [r EXCEPT !.log = Append(@,
                               [reply |-> "ok", seconds |-> 0, slept |-> 0])],
                        Eff(r), TRUE)
           \/ \* FloodWaitError: sleep seconds + 2, next iteration of the loop
              \E w \in FloodWaits :
                LET r1 == [r EXCEPT !.log = Append(@,
                               [reply |-> "flood", seconds |-> w,
                                slept |-> flood_wait(w)])]
                IN  IF has_next_attempt(attempt)
                    THEN /\ Goto(t, r1)
                         /\ UNCHANGED <<last_id, file, sent, committed>>
                    ELSE \* the loop is over: the function returns None
                         /\ Commit(t, r1, Eff(r), FALSE)
                         /\ UNCHANGED sent
           \/ \* any other exception
              IF retry_after_error(attempt)
              THEN /\ Goto(t, [r EXCEPT !.log = Append(@,
                                  [reply |-> "error", seconds |-> 0,
                                   slept |-> RETRY_DELAY_SEC])])
                   /\ UNCHANGED <<last_id, file, sent, committed>>
              ELSE /\ Ended(t, [r EXCEPT !.log = Append(@,
                                  [reply |-> "error", seconds |-> 0, slept |-> 0])],
                            "failed", "send", FALSE)
                   /\ UNCHANGED <<last_id, file, sent, committed>>
    /\ UNCHANGED <<history, deleted, budget, cfg, msgs, passed>>
    /\ UNCHANGED call

\* ---------------------------------------------------------------- catch-up
\* main() enters initial_catchup (lines 246-250).
CuStart ==
    /\ tasks[0].pc = "start"
    /\ IF CATCH_UP <= 0
       THEN Goto(0, [tasks[0] EXCEPT !.pc = "live"])
       ELSE Goto(0, [tasks[0] EXCEPT !.pc = "fetch"])
    /\ UNCHANGED <<history, deleted, budget, cfg, last_id, file, sent, msgs,
                   committed, passed>>
    /\ UNCHANGED call

\* The batch arrives (lines 249-251), or the fetch raises (lines 267-268).
CuFetch ==
    /\ tasks[0].pc = "fetch"
    /\ \/ /\ Cardinality(Active) < MaxActive
          /\ msgs' = iter_messages(CATCH_UP)
          /\ tasks' = [tasks EXCEPT ![0] = [@ EXCEPT !.pc = "loop"]]
          /\ idx' = 1
          /\ last' = NoLast
       \/ /\ Goto(0, [tasks[0] EXCEPT !.pc = "live"])
          /\ msgs' = msgs
    /\ UNCHANGED <<history, deleted, budget, cfg, last_id, file, sent,
                   committed, passed>>
    /\ UNCHANGED call

\* The next iteration of `for m in msgs` (lines 253-264).
CuNext ==
    /\ tasks[0].pc = "loop"
    /\ IF idx > Len(msgs)
       THEN /\ Goto(0, [NoTask EXCEPT !.pc = "live"])
            /\ UNCHANGED <<last_id, file, sent, committed, passed>>
       ELSE LET m == msgs[idx]
            IN  IF history[m].gid # 0
                THEN /\ Goto(0, [NoTask EXCEPT !.pc = "scan", !.msg = m])
                     /\ UNCHANGED <<last_id, file, sent, committed, passed>>
                ELSE repost_single_message(0, m)
    /\ UNCHANGED <<history, deleted, budget, cfg, msgs>>
    /\ UNCHANGED call

\* ------------------------------------------- functions applied on their own
\* The texts given to the text functions: the empty text, blanks, words,
\* hashtags.
CallTexts ==
    {<<>>} \cup [1..1 -> {"a", " ", "#"}] \cup [1..2 -> {"a", " ", "#"}]

\* What a text function returned, or that it raised.
Returned(text) == [raised |-> FALSE, text |-> text]
Raised == [raised |-> TRUE, text |-> <<>>]

Idle ==
    UNCHANGED <<history, deleted, budget, cfg, last_id, file, sent, tasks, msgs,
                idx, committed, passed, last>>

\* load_state() on a state file.
CallLoadState ==
    /\ \E f \in FileContents :
         call' = [fn |-> "load_state", f |-> f, out |-> load_state(f)]
    /\ Idle

\* The process dies inside save_state; the next start loads the file.
CallCrashedSave ==
    /\ \E prev \in 0..MaxId : \E id \in 1..MaxId : \E point \in CrashPoints :
         call' = [fn |-> "crashed_save", prev |-> prev, id |-> id, point |-> point,
                  out |-> load_state(crashed_save(
                              [st |-> "valid", last_id |-> prev], id, point))]
    /\ Idle

\* translate_text(text, LANG_TO) under the configuration cfg.
CallTranslate ==
    /\ \E text \in CallTexts : \E reply \in Replies(cfg.OPENAI) :
         call' = [fn |-> "translate_text", text |-> text, reply |-> reply,
                  out |-> IF translate_raises(text, cfg.KEEP_HASHTAGS)
                          THEN Raised
                          ELSE Returned(translate_text(text, reply, cfg.SIGNATURE))]
    /\ Idle

\* _restore_hashtags(*_preserve_hashtags(text))
CallRoundTrip ==
    /\ \E text \in CallTexts :
         LET shielded == _preserve_hashtags(text)
         IN  call' = [fn |-> "round_trip", text |-> text,
                      out |-> IF shielded.raised
                              THEN Raised
                              ELSE Returned(_restore_hashtags(
                                       shielded.t, shielded.placeholders))]
    /\ Idle

\* ------------------------------------------------------- specifications
\* The channel only publishes.
Next ==
    \/ Post
    \/ CuStart
    \/ CuFetch
    \/ CuNext
    \/ \E t \in Live : HandlerStart(t)
    \/ \E t \in Procs : Scan(t)
    \/ \E t \in Procs : Download(t)
    \/ \E t \in Procs : Send(t)

\* The channel publishes and deletes.
NextAll ==
    \/ Next
    \/ Delete

\* Several items, the plain configurations, no deletion.
Spec == Init /\ [][Next]_vars

\* Every configuration, MaxOne items, deletion.
SpecAll == InitAll /\ [][NextAll]_vars

\* Every call that initial_catchup awaits returns or raises in the end, and
\* the loop resumes it.
CatchUpFairness ==
    /\ WF_vars(CuStart)
    /\ WF_vars(CuFetch)
    /\ WF_vars(CuNext)
    /\ WF_vars(Scan(0))
    /\ WF_vars(Download(0))
    /\ WF_vars(Send(0))

\* MaxFair items, the plain configurations.
InitFair == InitWith(PlainConfigs, MaxFair)

\* MaxFair items, the plain configurations, no deletion, catch-up scheduled
\* fairly.
SpecFair == InitFair /\ [][Next]_vars /\ CatchUpFairness

\* The functions of the program, each applied on its own.
NextFn ==
    \/ CallLoadState
    \/ CallCrashedSave
    \/ CallTranslate
    \/ CallRoundTrip

\* Every configuration, no item; the functions applied on their own.
InitFn == InitWith(Configs, 0)

SpecFn == InitFn /\ [][NextFn]_vars

\* ------------------------------------------------------------- properties
\* The step of task t that evaluates the Filter of the single item m
\* (line 181): a live handler's first step, or an iteration of catch-up.
SingleStep(t, m) ==
    \/ /\ t \in Live
       /\ m = t
       /\ tasks[t].pc = "notified"
       /\ tasks'[t].pc # "notified"
       /\ history[t].gid = 0
    \/ /\ t = 0
       /\ tasks[0].pc = "loop"
       /\ idx' # idx \/ tasks'[0].pc # "loop"
       /\ idx <= Len(msgs)
       /\ m = msgs[idx]
       /\ history[m].gid = 0

\* The step of task t that receives the items grp of its group scan.
ScanStep(t, grp) ==
    /\ tasks[t].pc = "scan"
    /\ tasks'[t].pc # "scan"
    /\ last'.err # "scan"
    /\ grp = group_of(history[tasks[t].msg].gid, scan_limit(t))

\* The step of task t that evaluates the Filter for effective id eff.
FilterStep(t, eff) ==
    \/ SingleStep(t, eff)
    \/ /\ tasks[t].pc = "scan"
       /\ LET grp == group_of(history[tasks[t].msg].gid, scan_limit(t))
          IN  /\ ScanStep(t, grp)
              /\ grp # <<>>
              /\ eff = grp[Len(grp)]

Replied(log, kind) == Cardinality({i \in 1..Len(log) : log[i].reply = kind})

\* C1: the watermark last_id never decreases: every step leaves last_id
\* greater than or equal to its previous value.
C1_WatermarkNeverDecreases == [][last_id' >= last_id]_vars

\* C2: Post handling is single-flight: at no time are two Posts both
\* between their Filter and their Commit.
C2_SingleFlight == Cardinality({t \in Procs : InFlight(t)}) <= 1

\* C3: idempotent dedup: a Post whose effective id is at most the watermark
\* is skipped when its Filter is evaluated (single item or group, live or
\* catch-up): nothing is delivered, and last_id and the state file stay as
\* they are.
C3_OldPostIsSkipped ==
    [][\A t \in Procs : \A eff \in 1..MaxId :
         (FilterStep(t, eff) /\ eff <= last_id)
            => /\ last'.res = "skipped"
               /\ last'.t = t
               /\ last'.id = eff
               /\ UNCHANGED <<last_id, file, sent>>]_vars

\* A Post at or below the watermark has just been skipped.
C3_Witness ==
    /\ last.res = "skipped"
    /\ last.id # 0
    /\ last.id <= last_id

\* C4: rate-limit backoff does not consume the attempt budget: the Send
\* Executor sleeps w + 2 after each rate limit and tries again, so a call
\* never ends on a rate limit, and it gives up only after RETRY_COUNT
\* failures that are not rate limits.
C4_FloodKeepsBudget ==
    (last.res # "none" /\ last.log # <<>>)
        => /\ \A i \in 1..Len(last.log) :
                last.log[i].reply = "flood"
                    => last.log[i].slept = last.log[i].seconds + 2
           /\ last.log[Len(last.log)].reply # "flood"
           /\ last.err = "send" => Replied(last.log, "error") = cfg.RETRY_COUNT

\* C5: the watermark is advanced to a Post's id only after the Post was
\* delivered, or when the Post has neither a caption nor media.
C5_CommitOnlyAfterDelivery ==
    last.res = "committed" => (last.delivered \/ last.empty)

\* C6: retry exhaustion: the Send Executor never makes an attempt beyond
\* RETRY_COUNT; when the target answers RETRY_COUNT failures that are not
\* rate limits, the executor has slept RETRY_DELAY_SEC after each but the
\* last and raises: the Post fails, undelivered and uncommitted.
C6_RetryExhaustion ==
    /\ \A t \in Procs : tasks[t].pc = "send" => Len(tasks[t].log) < cfg.RETRY_COUNT
    /\ Len(last.log) <= cfg.RETRY_COUNT
    /\ (Replied(last.log, "error") = cfg.RETRY_COUNT)
          => /\ last.res = "failed"
             /\ last.err = "send"
             /\ ~last.delivered
             /\ \A i \in 1..Len(last.log) :
                  last.log[i].slept =
                      IF i < Len(last.log) THEN RETRY_DELAY_SEC ELSE 0

\* A Post has just failed after more than one attempt, every one an error.
C6_Witness ==
    /\ last.res = "failed"
    /\ last.err = "send"
    /\ Len(last.log) = MaxRetry
    /\ Replied(last.log, "error") = MaxRetry
    /\ cfg.RETRY_COUNT = MaxRetry

\* C7: a failed live Post leaves the dedup state untouched: the handler
\* ends (the failure is absorbed) with last_id, the state file and the
\* target as they were, last_id being what the handler's Filter read, and
\* the Post is still newer than the watermark unless a higher id has been
\* committed.
C7_FailedLivePost ==
    [][(last'.res = "failed" /\ last'.t \in Live /\ tasks[last'.t].pc # "end")
          => /\ tasks'[last'.t].pc = "end"
             /\ UNCHANGED <<last_id, file, sent>>
             /\ InFlight(last'.t) => last_id' = tasks[last'.t].seen
             /\ last'.id # 0
                  => \/ last'.id > last_id'
                     \/ \E c \in committed' : c > last'.id]_vars

\* C8: an empty Post (no text, no media) newer than the watermark triggers
\* no delivery and advances last_id to its id, in every configuration; the
\* state file holds that id when the write goes through.
C8_EmptyPostCommits ==
    [][\A t \in Procs : \A m \in 1..MaxId :
         (/\ SingleStep(t, m)
          /\ m > last_id
          /\ history[m].text = <<>>
          /\ ~history[m].media)
            => /\ sent' = sent
               /\ last_id' = m
               /\ last'.res = "committed"
               /\ last'.id = m
               /\ ~last'.delivered
               /\ \E io \in IoResults(cfg.DISK_FAULTS) : file' = save_state(m, io)
               /\ ~cfg.DISK_FAULTS => file' = [st |-> "valid", last_id |-> m]]_vars

\* An empty Post has just been committed with a signature configured.
C8_Witness ==
    /\ last.res = "committed"
    /\ last.empty
    /\ ~last.delivered
    /\ history[last.id].text = <<>>
    /\ cfg.SIGNATURE # <<>>
    /\ last_id = last.id
    /\ sent = <<>>

C10_HandledInOrder ==
    /\ passed.in_order
    /\ \A i \in 1..Len(history) :
         (i \notin deleted /\ history[i].gid = 0 /\ i < last_id)
            => i \in passed.ids

\* C11: the state write is crash-atomic: wherever the process dies inside
\* save_state, the next load_state returns the previous watermark or the
\* new one.
C11_CrashAtomicSave ==
    call.fn = "crashed_save"
        => /\ call.out.type = "int"
           /\ call.out.n \in {call.prev, call.id}

\* C18: load_state yields an integer watermark for every content of the
\* state file: the stored last_id of a valid record, 0 for anything else;
\* the Filter's comparison with it does not raise.
C18_LoadStateYieldsInteger ==
    call.fn = "load_state"
        => /\ call.out.type = "int"
           /\ call.out.n = (IF call.f.st = "valid" THEN call.f.last_id ELSE 0)
           /\ ~filter_raises(call.out)

\* The caption the signature rule gives for a translated text.
Signed(translated, sig) ==
    IF sig = <<>> THEN translated
    ELSE IF translated # <<>> THEN translated \o <<NL, NL>> \o sig ELSE sig

\* C12: translation degrades safely: translate_text never raises, and with
\* no backend configured or a failed backend call it returns the stripped
\* input text with the configured signature appended, hashtag shielding on
\* or off.
C12_TranslationDegradesSafely ==
    call.fn = "translate_text"
        => /\ ~call.out.raised
           /\ ~call.reply.ok
                => call.out.text = Signed(strip(call.text), cfg.SIGNATURE)

\* C13: hashtag round trip: _restore_hashtags applied to the result of
\* _preserve_hashtags returns the original text.
C13_HashtagRoundTrip ==
    call.fn = "round_trip"
        => /\ ~call.out.raised
           /\ call.out.text = call.text

Range(s) == {s[i] : i \in 1..Len(s)}

\* The step in which task t's delivery is acknowledged.
DeliveryStep(t) ==
    /\ tasks[t].pc = "send"
    /\ tasks'[t].pc # "send"
    /\ sent' # sent

C15_CatchUpBeforeLive ==
    [][\A t \in Live :
         (\/ \E eff \in 1..MaxId : FilterStep(t, eff)
          \/ InFlight(t) /\ tasks'[t] # tasks[t])
            => tasks[0].pc = "live"]_vars

\* C19: no duplicate delivery: the target receives every Post, an album
\* with one notification per sibling included, at most once.
C19_NoDuplicateDelivery ==
    \A i \in 1..Len(sent) : \A j \in 1..Len(sent) : sent[i] = sent[j] => i = j

\* No live notification has been raised: initial_catchup runs alone.
CatchUpAlone == \A t \in Live : tasks[t].pc = "idle"

\* C20: during catch-up every Post is attempted at most once: in a run of
\* catch-up alone, a Post that enters its Deliver step has not passed the
\* Filter before, whether the earlier attempt succeeded or failed.  (With
\* hashtag shielding off no attempt ends between Filter and Deliver, so an
\* earlier pass of the Filter is an earlier Deliver step.)
C20_CatchUpAttemptsOnce ==
    [][\A eff \in 1..MaxId :
         (/\ CatchUpAlone
          /\ ~cfg.KEEP_HASHTAGS
          /\ FilterStep(0, eff)
          /\ InFlight(0)')
            => eff \notin passed.ids]_vars

\* C16: catch-up failures are not fatal to the batch: when a Post fails
\* during catch-up the failure is absorbed, last_id, the state file and the
\* target stay as they are, and the loop goes on with the next message of
\* the batch; initial_catchup returns in the end, whichever Posts fail.
C16_CatchUpSurvivesFailures ==
    /\ [][(last'.res = "failed" /\ last'.t = 0 /\ tasks[0].pc # "loop")
            => /\ UNCHANGED <<last_id, file, sent, msgs>>
               /\ tasks'[0].pc = "loop"
               /\ idx' = idx + 1]_vars
    /\ [][(tasks[0].pc = "loop" /\ tasks'[0].pc = "live") => idx > Len(msgs)]_vars
    /\ <>(tasks[0].pc = "live")

\* Catch-up alone: the first Post of the batch failed, the second has just
\* been committed.
C16_Witness ==
    /\ CatchUpAlone
    /\ msgs = <<1, 2>>
    /\ 1 \in passed.ids
    /\ 1 \notin committed
    /\ last.t = 0
    /\ last.res = "committed"
    /\ last.id = 2

====
